---- MODULE Spec2Model ----
(***************************************************************************)
(* willsmith/simulator.py: the two drivers run_games and run_mdp, modelled  *)
(* as a sequential program whose steps are the calls it makes on its       *)
(* collaborators (Game, MDP and their agents).  The collaborators are not   *)
(* part of simulator.py; they are deterministic stubs built from the        *)
(* interface of the specification, parameterised by values drawn in Init,   *)
(* and every call on them may raise.                                        *)
(***************************************************************************)
EXTENDS Integers, Sequences, FiniteSets, TLC

\* ------------------------------------------------------------------ bounds
MaxPlayers == 2
MaxMoves == 3
MaxEpisodes == 2
NumActions == 2

\* ------------------------------------------------------------------ state
VARIABLES
    mode,           \* "game": run_games was called; "mdp": run_mdp was called
    pc,             \* the driver's position
    raised,         \* an exception is propagating out of the driver
    numPlayers,     \* game.NUM_PLAYERS
    agents,         \* the agents argument: agents[p] is the agent_id of the agent at position p
    num,            \* num_games / num_trials
    len,            \* stub parameter: the environment is terminal after len transitions
    bias,           \* stub parameter of the agents' policy
    learner,        \* stub parameter: the agents' policy uses state that reset() keeps
    scribbler,      \* stub parameter: a queried agent plays on in the copy it was given
    early,          \* stub parameter: step reports terminal one step before is_terminal does
    endless,        \* stub parameter: the environment never reports terminal
    i,              \* episodes started (the loop variable i + 1)
    k,              \* position of the next agent in a "for agent in agents" loop
    game,           \* the live game
    mdp,            \* the live MDP
    own,            \* own[p]: own actions agent p has been notified of since its reset()
    weights,        \* weights[p]: what agent p has learned; reset() keeps it
    snaps,          \* the objects copy() has produced: reference r >= 1 is snaps[r]
    taken,          \* taken[r]: what snaps[r] held when copy() returned it
    current_agent,  \* _run_game: position of the agent being queried
    snap,           \* reference of the copy made for the next query
    action,         \* the local action
    agent_id_for_action, \* _advance_by_action: the id captured before take_action
    prev_state,     \* _run_trial: reference held by prev_state (NoRef = None)
    reward,         \* _run_trial: reward returned by step
    terminal,       \* _run_trial: terminal flag returned by step
    trace,          \* calls made on the collaborators in the current episode
    history,        \* the traces of the completed episodes, and what each reported
    reports

vars == <<mode, pc, raised, numPlayers, agents, num, len, bias, learner,
          scribbler, early, endless, i, k,
          game, mdp, own, weights, snaps, taken, current_agent, snap, action,
          agent_id_for_action, prev_state, reward, terminal, trace, history,
          reports>>

params == <<mode, numPlayers, agents, num, len, bias, learner, scribbler, early, endless>>
gameLocals == <<current_agent, action, agent_id_for_action>>
mdpLocals == <<prev_state, reward, terminal>>

\* ------------------------------------------------------------------ values
Live == 0
NoRef == 0 - 1
NoAction == 0 - 1
Actions == 0 .. (NumActions - 1)

\* Agent lists of length n, each agent with an id of its own: the ids are the
\* list positions, or the list is in another order (rotated by one).
IdentityIds(n) == [p \in 1..n |-> p - 1]
RotatedIds(n) == [p \in 1..n |-> p % n]
AgentLists == UNION { {IdentityIds(n), RotatedIds(n)} : n \in 0..(MaxPlayers + 1) }

\* One recorded call.  agent: list position of the agent called (0: the call is on
\* the environment); env, prev: references of environment objects passed or
\* returned; flag, val: boolean / numeric argument or result.
Call(op, agent, env, prev, act, flag, val) ==
    [op |-> op, agent |-> agent, env |-> env, prev |-> prev, action |-> act,
     flag |-> flag, val |-> val]

\* ------------------------------------------------------------------ Game stub
GameInitial == [moves |-> 0, current_agent_id |-> 0]
GameIsTerminal(g) == ~endless /\ g.moves >= len
GameTakeAction(g, a) ==
    [moves |-> g.moves + 1,
     current_agent_id |-> (g.current_agent_id + 1 + a) % numPlayers]
GameWinningId(g) == g.current_agent_id

\* Agent stub (game mode): the action depends on the snapshot it is given, on its
\* own move count since reset and, for a learner, on what it has learned.
AgentSearch(p, g) ==
    (g.moves + own[p] + bias + (IF learner THEN weights[p] ELSE 0)) % NumActions
AgentTakeAction(p, is_own) ==
    /\ own' = [own EXCEPT ![p] = @ + (IF is_own THEN 1 ELSE 0)]
    /\ weights' = [weights EXCEPT ![p] = @ + 1]

\* ------------------------------------------------------------------ MDP stub
MdpInitial == [timesteps |-> 0, total_reward |-> 0]
MdpIsTerminal(m) == ~endless /\ m.timesteps >= len
\* The terminal flag step returns for the state m it leads to: that of
\* is_terminal(), or (early) one that is already TRUE one step before.
MdpStepTerminal(m) ==
    IF early THEN m.timesteps + 1 >= len ELSE MdpIsTerminal(m)
MdpReward(m, a) == 1 + a
MdpStep(m, a) ==
    [timesteps |-> m.timesteps + 1, total_reward |-> m.total_reward + MdpReward(m, a)]
AgentNextAction(m) ==
    (m.timesteps + bias + (IF learner THEN weights[1] ELSE 0)) % NumActions

\* A queried agent that plays on in the object r it was handed leaves it as v.
AgentPlaysOn(r, v) == IF scribbler THEN [snaps EXCEPT ![r] = v] ELSE snaps

\* ------------------------------------------------------------------ driver
\* Mutant of Propagate: the exception is swallowed and the run goes on with the
\* next episode.
PropagateSwallowed ==
    /\ pc' = IF mode = "game" THEN "for_game" ELSE "for_trial"
    /\ raised' = TRUE

\* An exception raised by a collaborator call: simulator.py has no handler, so it
\* leaves run_games / run_mdp.
Propagate ==
    /\ pc' = "raised"
    /\ raised' = TRUE

\* The call e is made; it returns (ok) or raises.
Made(e) == trace' = Append(trace, e)

Init ==
    /\ mode \in {"game", "mdp"}
    /\ numPlayers \in 1..MaxPlayers
    /\ agents \in AgentLists
    /\ mode = "mdp" => (numPlayers = 1 /\ agents = IdentityIds(1))
    /\ num \in (0 - 1)..MaxEpisodes
    /\ len \in 0..MaxMoves
    /\ bias \in Actions
    /\ learner \in BOOLEAN
    /\ scribbler \in BOOLEAN
    /\ early \in BOOLEAN
    /\ mode = "game" => ~early
    /\ endless \in BOOLEAN
    /\ endless => (len = MaxMoves /\ ~early)
    /\ pc = IF mode = "game" THEN "run_games" ELSE "for_trial"
    /\ raised = FALSE
    /\ i = 0
    /\ k = 1
    /\ game = GameInitial
    /\ mdp = MdpInitial
    /\ own = [p \in 1..Len(agents) |-> 0]
    /\ weights = [p \in 1..Len(agents) |-> 0]
    /\ snaps = <<>>
    /\ taken = <<>>
    /\ current_agent = 1
    /\ snap = NoRef
    /\ action = NoAction
    /\ agent_id_for_action = 0
    /\ prev_state = NoRef
    /\ reward = 0
    /\ terminal = FALSE
    /\ trace = <<>>
    /\ history = <<>>
    /\ reports = <<>>

\* Mutant of CheckAgents: the agent count is not checked.
CheckAgentsUnchecked ==
    /\ pc = "run_games"
    /\ pc' = "for_game"
    /\ UNCHANGED <<params, raised, i, k, game, mdp, own, weights, snaps, taken, snap,
                   gameLocals, mdpLocals, trace, history, reports>>

\* run_games, lines 17-18: the agent count is checked before anything else.
CheckAgents ==
    /\ pc = "run_games"
    /\ IF Len(agents) # numPlayers
         THEN pc' = "config_error" /\ raised' = TRUE
         ELSE pc' = "for_game" /\ UNCHANGED raised
    /\ UNCHANGED <<params, i, k, game, mdp, own, weights, snaps, taken, snap, gameLocals,
                   mdpLocals, trace, history, reports>>

\* Mutant of ForGame: the loop runs once too often.
ForGameOnceMore ==
    /\ pc = "for_game"
    /\ IF i <= num
         THEN /\ i' = i + 1
              /\ trace' = <<>>
              /\ pc' = "game_reset"
         ELSE /\ pc' = "run_end"
              /\ UNCHANGED <<i, trace>>
    /\ UNCHANGED <<params, raised, k, game, mdp, own, weights, snaps, taken, snap,
                   gameLocals, mdpLocals, history, reports>>

\* run_games, lines 20-24: the next episode, or the end of the run.
ForGame ==
    /\ pc = "for_game"
    /\ IF i < num
         THEN /\ i' = i + 1
              /\ trace' = <<>>
              /\ pc' = "game_reset"
         ELSE /\ pc' = "run_end"
              /\ UNCHANGED <<i, trace>>
    /\ UNCHANGED <<params, raised, k, game, mdp, own, weights, snaps, taken, snap,
                   gameLocals, mdpLocals, history, reports>>

\* Mutant of ResetGame: the episode starts without game.reset().
ResetGameSkipped ==
    /\ pc = "game_reset"
    /\ k' = 1
    /\ pc' = "agent_reset"
    /\ UNCHANGED <<params, raised, i, game, mdp, own, weights, snaps, taken, snap,
                   gameLocals, mdpLocals, trace, history, reports>>

\* _run_game, line 45: game.reset().
ResetGame ==
    /\ pc = "game_reset"
    /\ Made(Call("game.reset", 0, NoRef, NoRef, NoAction, FALSE, 0))
    /\ \E ok \in BOOLEAN :
         IF ok THEN /\ game' = GameInitial
                    /\ k' = 1
                    /\ pc' = "agent_reset"
                    /\ UNCHANGED raised
               ELSE Propagate /\ UNCHANGED <<game, k>>
    /\ UNCHANGED <<params, i, mdp, own, weights, snaps, taken, snap, gameLocals,
                   mdpLocals, history, reports>>

\* Mutant of ResetAgent: the agents are not reset.
ResetAgentSkipped ==
    /\ pc = "agent_reset"
    /\ pc' = "while_game"
    /\ UNCHANGED <<params, raised, i, k, game, mdp, own, weights, snaps, taken, snap,
                   gameLocals, mdpLocals, trace, history, reports>>

\* _run_game, lines 46-48: agent.reset() for each agent, in list order.
ResetAgent ==
    /\ pc = "agent_reset"
    /\ IF k > Len(agents)
         THEN /\ pc' = "while_game"
              /\ UNCHANGED <<raised, k, own, trace>>
         ELSE /\ Made(Call("agent.reset", k, NoRef, NoRef, NoAction, FALSE, 0))
              /\ \E ok \in BOOLEAN :
                   IF ok THEN /\ own' = [own EXCEPT ![k] = 0]
                              /\ k' = k + 1
                              /\ UNCHANGED <<pc, raised>>
                         ELSE Propagate /\ UNCHANGED <<own, k>>
    /\ UNCHANGED <<params, i, game, mdp, weights, snaps, taken, snap, gameLocals,
                   mdpLocals, history, reports>>

\* Mutant of WhileGame: the driver gives up after MaxMoves transitions.
WhileGameCapped ==
    /\ pc = "while_game"
    /\ endless => game.moves <= MaxMoves
    /\ Made(Call("game.is_terminal", 0, NoRef, NoRef, NoAction, GameIsTerminal(game), 0))
    /\ \E ok \in BOOLEAN :
         IF ok THEN /\ pc' = IF GameIsTerminal(game) \/ game.moves >= MaxMoves
                               THEN "winner" ELSE "game_copy"
                    /\ UNCHANGED raised
               ELSE Propagate
    /\ UNCHANGED <<params, i, k, game, mdp, own, weights, snaps, taken, snap, gameLocals,
                   mdpLocals, history, reports>>

\* Mutant of WhileGame: the loop body runs once before the test counts.
WhileGameBodyFirst ==
    /\ pc = "while_game"
    /\ endless => game.moves <= MaxMoves
    /\ Made(Call("game.is_terminal", 0, NoRef, NoRef, NoAction, GameIsTerminal(game), 0))
    /\ \E ok \in BOOLEAN :
         IF ok THEN /\ pc' = IF GameIsTerminal(game) /\ game.moves > 0
                               THEN "winner" ELSE "game_copy"
                    /\ UNCHANGED raised
               ELSE Propagate
    /\ UNCHANGED <<params, i, k, game, mdp, own, weights, snaps, taken, snap, gameLocals,
                   mdpLocals, history, reports>>

\* _run_game, line 50: while not game.is_terminal().  The loop has no other exit;
\* the model follows a never-terminal game for MaxMoves + 1 transitions.
WhileGame ==
    /\ pc = "while_game"
    /\ endless => game.moves <= MaxMoves
    /\ Made(Call("game.is_terminal", 0, NoRef, NoRef, NoAction, GameIsTerminal(game), 0))
    /\ \E ok \in BOOLEAN :
         IF ok THEN /\ pc' = IF GameIsTerminal(game) THEN "winner" ELSE "game_copy"
                    /\ UNCHANGED raised
               ELSE Propagate
    /\ UNCHANGED <<params, i, k, game, mdp, own, weights, snaps, taken, snap, gameLocals,
                   mdpLocals, history, reports>>

\* _run_game, lines 51-52: current_agent = agents[game.current_agent_id]; game.copy().
CopyGame ==
    /\ pc = "game_copy"
    /\ current_agent' = game.current_agent_id + 1
    /\ Made(Call("game.copy", 0, Len(snaps) + 1, NoRef, NoAction, FALSE, 0))
    /\ \E ok \in BOOLEAN :
         IF ok THEN /\ snaps' = Append(snaps, game)
                    /\ taken' = Append(taken, game)
                    /\ snap' = Len(snaps) + 1
                    /\ pc' = "search"
                    /\ UNCHANGED raised
               ELSE Propagate /\ UNCHANGED <<snaps, taken, snap>>
    /\ UNCHANGED <<params, i, k, game, mdp, own, weights, action,
                   agent_id_for_action, mdpLocals, history, reports>>

\* Mutant of Search: the live game is handed to the agent instead of the copy.
SearchLive ==
    /\ pc = "search"
    /\ LET a == AgentSearch(current_agent, game) IN
         /\ Made(Call("agent.search", current_agent, Live, NoRef, a, FALSE, 0))
         /\ \E ok \in BOOLEAN :
              IF ok THEN /\ action' = a
                         /\ pc' = "advance"
                         /\ UNCHANGED raised
                    ELSE Propagate /\ UNCHANGED action
    /\ UNCHANGED <<params, i, k, game, mdp, own, weights, snaps, taken, snap,
                   current_agent, agent_id_for_action, mdpLocals, history, reports>>

\* _run_game, line 52: action = current_agent.search(<the copy>, time_allowed).
Search ==
    /\ pc = "search"
    /\ LET a == AgentSearch(current_agent, snaps[snap]) IN
         /\ Made(Call("agent.search", current_agent, snap, NoRef, a, FALSE, 0))
         /\ \E ok \in BOOLEAN :
              IF ok THEN /\ action' = a
                         /\ snaps' = AgentPlaysOn(snap, GameTakeAction(snaps[snap], a))
                         /\ pc' = "advance"
                         /\ UNCHANGED raised
                    ELSE Propagate /\ UNCHANGED <<action, snaps>>
    /\ UNCHANGED <<params, i, k, game, mdp, own, weights, taken, snap,
                   current_agent, agent_id_for_action, mdpLocals, history, reports>>

\* Mutant of Advance: the action is applied to the copy the agent was given
\* instead of the live game.
AdvanceOnCopy ==
    /\ pc = "advance"
    /\ agent_id_for_action' = game.current_agent_id
    /\ Made(Call("game.take_action", 0, snap, NoRef, action, FALSE, 0))
    /\ \E ok \in BOOLEAN :
         IF ok THEN /\ snaps' = [snaps EXCEPT ![snap] = GameTakeAction(@, action)]
                    /\ k' = 1
                    /\ pc' = "notify"
                    /\ UNCHANGED raised
               ELSE Propagate /\ UNCHANGED <<snaps, k>>
    /\ UNCHANGED <<params, i, game, mdp, own, weights, taken, snap, current_agent,
                   action, mdpLocals, history, reports>>

\* _advance_by_action, lines 63-66: the id is captured, then game.take_action(action).
Advance ==
    /\ pc = "advance"
    /\ agent_id_for_action' = game.current_agent_id
    /\ Made(Call("game.take_action", 0, Live, NoRef, action, FALSE, 0))
    /\ \E ok \in BOOLEAN :
         IF ok THEN /\ game' = GameTakeAction(game, action)
                    /\ k' = 1
                    /\ pc' = "notify"
                    /\ UNCHANGED raised
               ELSE Propagate /\ UNCHANGED <<game, k>>
    /\ UNCHANGED <<params, i, mdp, own, weights, snaps, taken, snap, current_agent,
                   action, mdpLocals, history, reports>>

\* Mutant of Notify: the agents are told in reverse list order.
NotifyReversed ==
    /\ pc = "notify"
    /\ IF k > Len(agents)
         THEN /\ pc' = "while_game"
              /\ UNCHANGED <<raised, k, own, weights, trace>>
         ELSE LET q == Len(agents) + 1 - k
                  is_own == agents[q] = agent_id_for_action IN
              /\ Made(Call("agent.take_action", q, NoRef, NoRef, action, is_own, 0))
              /\ \E ok \in BOOLEAN :
                   IF ok THEN /\ AgentTakeAction(q, is_own)
                              /\ k' = k + 1
                              /\ UNCHANGED <<pc, raised>>
                         ELSE Propagate /\ UNCHANGED <<own, weights, k>>
    /\ UNCHANGED <<params, i, game, mdp, snaps, taken, snap, gameLocals, mdpLocals,
                   history, reports>>

\* Mutant of Notify: the loop is left after the first agent.
NotifyFirstOnly ==
    /\ pc = "notify"
    /\ IF k > 1
         THEN /\ pc' = "while_game"
              /\ UNCHANGED <<raised, k, own, weights, trace>>
         ELSE LET is_own == agents[k] = agent_id_for_action IN
              /\ Made(Call("agent.take_action", k, NoRef, NoRef, action, is_own, 0))
              /\ \E ok \in BOOLEAN :
                   IF ok THEN /\ AgentTakeAction(k, is_own)
                              /\ k' = k + 1
                              /\ UNCHANGED <<pc, raised>>
                         ELSE Propagate /\ UNCHANGED <<own, weights, k>>
    /\ UNCHANGED <<params, i, game, mdp, snaps, taken, snap, gameLocals, mdpLocals,
                   history, reports>>

\* _advance_by_action, lines 67-68: every agent is told the action, in list order.
Notify ==
    /\ pc = "notify"
    /\ IF k > Len(agents)
         THEN /\ pc' = "while_game"
              /\ UNCHANGED <<raised, k, own, weights, trace>>
         ELSE LET is_own == agents[k] = agent_id_for_action IN
              /\ Made(Call("agent.take_action", k, NoRef, NoRef, action, is_own, 0))
              /\ \E ok \in BOOLEAN :
                   IF ok THEN /\ AgentTakeAction(k, is_own)
                              /\ k' = k + 1
                              /\ UNCHANGED <<pc, raised>>
                         ELSE Propagate /\ UNCHANGED <<own, weights, k>>
    /\ UNCHANGED <<params, i, game, mdp, snaps, taken, snap, gameLocals, mdpLocals,
                   history, reports>>

\* _run_game, lines 56-57: the winner is read and logged; the episode is over.
Winner ==
    /\ pc = "winner"
    /\ Made(Call("game.get_winning_id", 0, NoRef, NoRef, NoAction, FALSE, GameWinningId(game)))
    /\ \E ok \in BOOLEAN :
         IF ok THEN /\ history' = Append(history, trace')
                    /\ reports' = Append(reports, GameWinningId(game))
                    /\ pc' = "for_game"
                    /\ UNCHANGED raised
               ELSE Propagate /\ UNCHANGED <<history, reports>>
    /\ UNCHANGED <<params, i, k, game, mdp, own, weights, snaps, taken, snap, gameLocals,
                   mdpLocals>>

\* run_mdp, lines 30-37: the next trial, or the end of the run.
ForTrial ==
    /\ pc = "for_trial"
    /\ IF i < num
         THEN /\ i' = i + 1
              /\ trace' = <<>>
              /\ pc' = "mdp_reset"
         ELSE /\ pc' = "run_end"
              /\ UNCHANGED <<i, trace>>
    /\ UNCHANGED <<params, raised, k, game, mdp, own, weights, snaps, taken, snap,
                   gameLocals, mdpLocals, history, reports>>

\* Mutant of ResetMdp: the trial starts without mdp.reset().
ResetMdpSkipped ==
    /\ pc = "mdp_reset"
    /\ prev_state' = NoRef
    /\ pc' = "while_mdp"
    /\ UNCHANGED <<params, raised, i, k, game, mdp, own, weights, snaps, taken, snap,
                   gameLocals, reward, terminal, trace, history, reports>>

\* _run_trial, lines 75-76: mdp.reset(); prev_state = None.  The agent is not reset.
ResetMdp ==
    /\ pc = "mdp_reset"
    /\ Made(Call("mdp.reset", 0, NoRef, NoRef, NoAction, FALSE, 0))
    /\ \E ok \in BOOLEAN :
         IF ok THEN /\ mdp' = MdpInitial
                    /\ prev_state' = NoRef
                    /\ pc' = "while_mdp"
                    /\ UNCHANGED raised
               ELSE Propagate /\ UNCHANGED <<mdp, prev_state>>
    /\ UNCHANGED <<params, i, k, game, own, weights, snaps, taken, snap, gameLocals,
                   reward, terminal, history, reports>>

\* _run_trial, line 78: while not mdp.is_terminal().  The loop has no other exit;
\* the model follows a never-terminal MDP for MaxMoves + 1 transitions.
WhileMdp ==
    /\ pc = "while_mdp"
    /\ endless => mdp.timesteps <= MaxMoves
    /\ Made(Call("mdp.is_terminal", 0, NoRef, NoRef, NoAction, MdpIsTerminal(mdp), 0))
    /\ \E ok \in BOOLEAN :
         IF ok THEN /\ pc' = IF MdpIsTerminal(mdp) THEN "return" ELSE "mdp_copy"
                    /\ UNCHANGED raised
               ELSE Propagate
    /\ UNCHANGED <<params, i, k, game, mdp, own, weights, snaps, taken, snap, gameLocals,
                   mdpLocals, history, reports>>

\* _run_trial, line 79: the argument mdp.copy() of get_next_action.
CopyMdp ==
    /\ pc = "mdp_copy"
    /\ Made(Call("mdp.copy", 0, Len(snaps) + 1, NoRef, NoAction, FALSE, 0))
    /\ \E ok \in BOOLEAN :
         IF ok THEN /\ snaps' = Append(snaps, mdp)
                    /\ taken' = Append(taken, mdp)
                    /\ snap' = Len(snaps) + 1
                    /\ pc' = "next_action"
                    /\ UNCHANGED raised
               ELSE Propagate /\ UNCHANGED <<snaps, taken, snap>>
    /\ UNCHANGED <<params, i, k, game, mdp, own, weights, gameLocals, mdpLocals,
                   history, reports>>

\* _run_trial, line 79: action = agent.get_next_action(<the copy>).
NextAction ==
    /\ pc = "next_action"
    /\ LET a == AgentNextAction(snaps[snap]) IN
         /\ Made(Call("agent.get_next_action", 1, snap, NoRef, a, FALSE, 0))
         /\ \E ok \in BOOLEAN :
              IF ok THEN /\ action' = a
                         /\ snaps' = AgentPlaysOn(snap, MdpStep(snaps[snap], a))
                         /\ pc' = "snapshot"
                         /\ UNCHANGED raised
                    ELSE Propagate /\ UNCHANGED <<action, snaps>>
    /\ UNCHANGED <<params, i, k, game, mdp, own, weights, taken, snap,
                   current_agent, agent_id_for_action, mdpLocals, history, reports>>

\* Mutant of Snapshot: prev_state is the copy the agent was given for its choice.
SnapshotShared ==
    /\ pc = "snapshot"
    /\ prev_state' = snap
    /\ pc' = "step"
    /\ UNCHANGED <<params, raised, i, k, game, mdp, own, weights, snaps, taken, snap,
                   gameLocals, reward, terminal, trace, history, reports>>

\* Mutant of Snapshot: prev_state = mdp, an alias of the live MDP instead of a copy.
SnapshotAlias ==
    /\ pc = "snapshot"
    /\ prev_state' = Live
    /\ pc' = "step"
    /\ UNCHANGED <<params, raised, i, k, game, mdp, own, weights, snaps, taken, snap,
                   gameLocals, reward, terminal, trace, history, reports>>

\* _run_trial, line 81: prev_state = mdp.copy().
Snapshot ==
    /\ pc = "snapshot"
    /\ Made(Call("mdp.copy", 0, Len(snaps) + 1, NoRef, NoAction, FALSE, 0))
    /\ \E ok \in BOOLEAN :
         IF ok THEN /\ snaps' = Append(snaps, mdp)
                    /\ taken' = Append(taken, mdp)
                    /\ prev_state' = Len(snaps) + 1
                    /\ pc' = "step"
                    /\ UNCHANGED raised
               ELSE Propagate /\ UNCHANGED <<snaps, taken, prev_state>>
    /\ UNCHANGED <<params, i, k, game, mdp, own, weights, snap, gameLocals,
                   reward, terminal, history, reports>>

\* _run_trial, line 82: reward, terminal = mdp.step(action).
Step ==
    /\ pc = "step"
    /\ LET m == MdpStep(mdp, action) IN
         /\ Made(Call("mdp.step", 0, Live, NoRef, action, MdpStepTerminal(m), MdpReward(mdp, action)))
         /\ \E ok \in BOOLEAN :
              IF ok THEN /\ mdp' = m
                         /\ reward' = MdpReward(mdp, action)
                         /\ terminal' = MdpStepTerminal(m)
                         /\ pc' = "update"
                         /\ UNCHANGED raised
                    ELSE Propagate /\ UNCHANGED <<mdp, reward, terminal>>
    /\ UNCHANGED <<params, i, k, game, own, weights, snaps, taken, snap, gameLocals,
                   prev_state, history, reports>>

\* Mutant of Update: the trial is left when step has returned terminal.
UpdateThenBreak ==
    /\ pc = "update"
    /\ Made(Call("agent.update", 1, Live, prev_state, action, terminal, reward))
    /\ \E ok \in BOOLEAN :
         IF ok THEN /\ weights' = [weights EXCEPT ![1] = @ + 1]
                    /\ pc' = IF terminal THEN "return" ELSE "while_mdp"
                    /\ UNCHANGED raised
               ELSE Propagate /\ UNCHANGED weights
    /\ UNCHANGED <<params, i, k, game, mdp, own, snaps, taken, snap, gameLocals,
                   mdpLocals, history, reports>>

\* Mutant of Update: the update of the step that ended the trial is left out.
UpdateUnlessTerminal ==
    /\ pc = "update"
    /\ IF terminal
         THEN /\ pc' = "while_mdp"
              /\ UNCHANGED <<raised, weights, trace>>
         ELSE /\ Made(Call("agent.update", 1, Live, prev_state, action, terminal, reward))
              /\ \E ok \in BOOLEAN :
                   IF ok THEN /\ weights' = [weights EXCEPT ![1] = @ + 1]
                              /\ pc' = "while_mdp"
                              /\ UNCHANGED raised
                         ELSE Propagate /\ UNCHANGED weights
    /\ UNCHANGED <<params, i, k, game, mdp, own, snaps, taken, snap, gameLocals,
                   mdpLocals, history, reports>>

\* _run_trial, line 84: agent.update(prev_state, mdp, reward, action, terminal).
Update ==
    /\ pc = "update"
    /\ Made(Call("agent.update", 1, Live, prev_state, action, terminal, reward))
    /\ \E ok \in BOOLEAN :
         IF ok THEN /\ weights' = [weights EXCEPT ![1] = @ + 1]
                    /\ pc' = "while_mdp"
                    /\ UNCHANGED raised
               ELSE Propagate /\ UNCHANGED weights
    /\ UNCHANGED <<params, i, k, game, mdp, own, snaps, taken, snap, gameLocals,
                   mdpLocals, history, reports>>

\* _run_trial line 86 and run_mdp lines 32-33: mdp.timesteps is returned and the
\* trial's reward and timesteps are logged.
ReturnTrial ==
    /\ pc = "return"
    /\ history' = Append(history, trace)
    /\ reports' = Append(reports, [timesteps |-> mdp.timesteps,
                                   total_reward |-> mdp.total_reward])
    /\ pc' = "for_trial"
    /\ UNCHANGED <<params, raised, i, k, game, mdp, own, weights, snaps, taken, snap,
                   gameLocals, mdpLocals, trace>>

\* run_games lines 23-24 / run_mdp lines 35-37: the run-end checkpoint.
RunEnd ==
    /\ pc = "run_end"
    /\ pc' = "done"
    /\ UNCHANGED <<params, raised, i, k, game, mdp, own, weights, snaps, taken, snap,
                   gameLocals, mdpLocals, trace, history, reports>>

\* ------------------------------------------------------------------ traces
Indices(t, op) == {j \in 1..Len(t) : t[j].op = op}
Notified(t, p) == {j \in Indices(t, "agent.take_action") : t[j].agent = p}
Positions == 1..Len(agents)
Queries(t) == Indices(t, "agent.search") \cup Indices(t, "agent.get_next_action")
\* The object a reference denotes.
Deref(r) == IF r = Live THEN (IF mode = "game" THEN game ELSE mdp) ELSE snaps[r]

\* ------------------------------------------------------------------ claims

\* C1: when len(agents) differs from the game's player count, run_games fails
\* with the configuration error at once: no episode is started and no method of
\* the game or of an agent is ever called.
C1_ConfigErrorBeforeAnyCall ==
    (mode = "game" /\ Len(agents) # numPlayers) =>
        /\ pc \in {"run_games", "config_error"}
        /\ pc = "config_error" => raised
        /\ i = 0
        /\ trace = <<>>
        /\ history = <<>>
        /\ snaps = <<>>

C1_Witness == mode = "game" /\ Len(agents) # numPlayers /\ pc = "config_error"

\* C2: in every completed game episode each agent receives as many take_action
\* notifications as there are transitions, and for every transition the
\* notification of the agent that was queried carries the own-action flag TRUE
\* and every other one carries FALSE.
C2_OneOwnFlagPerTransition ==
    mode = "game" =>
        \A e \in 1..Len(history) :
            LET t == history[e]
                moves == Indices(t, "game.take_action")
            IN  /\ \A p \in Positions :
                     Cardinality(Notified(t, p)) = Cardinality(moves)
                /\ \A j \in moves :
                     \A p \in Positions :
                         /\ t[j + p].op = "agent.take_action"
                         /\ t[j + p].agent = p
                         /\ t[j + p].flag = (p = t[j - 1].agent)

\* C3 as stated: every environment object handed to an agent operation (search,
\* get_next_action, update) is a copy; the live object is never passed.
C3_AgentsSeeOnlyCopies ==
    \A j \in 1..Len(trace) :
        trace[j].op \in {"agent.search", "agent.get_next_action", "agent.update"} =>
            /\ trace[j].env # Live
            /\ trace[j].prev # Live

\* C3 amended: search and get_next_action receive the copy made just before the
\* call, and update receives as prev_state the copy made before the step; the
\* second argument of update is the live MDP.
C3_CopiesExceptUpdateTarget ==
    \A j \in 1..Len(trace) :
        /\ trace[j].op \in {"agent.search", "agent.get_next_action"} =>
             /\ trace[j].env \in 1..Len(snaps)
             /\ trace[j - 1].op \in {"game.copy", "mdp.copy"}
             /\ trace[j - 1].env = trace[j].env
        /\ trace[j].op = "agent.update" =>
             /\ trace[j].prev \in 1..Len(snaps)
             /\ trace[j - 2].op = "mdp.copy"
             /\ trace[j - 2].env = trace[j].prev
             /\ trace[j].env = Live

C3_Witness ==
    /\ mode = "mdp"
    /\ Indices(trace, "agent.update") # {}
    /\ Indices(trace, "agent.get_next_action") # {}

\* C4: between two successive search calls of an episode the action the first
\* one returned has been applied to the live game and then delivered to every
\* agent; and from game.take_action to the last notification of a transition
\* nothing but the notifications happens.
C4_NoQueryBeforeAllNotified ==
    /\ \A j0, j \in Indices(trace, "agent.search") :
         (j0 < j /\ \A m \in (j0 + 1)..(j - 1) : trace[m].op # "agent.search") =>
             \E a \in (j0 + 1)..(j - 1) :
                 /\ trace[a].op = "game.take_action"
                 /\ trace[a].action = trace[j0].action
                 /\ \A p \in Positions :
                      \E b \in (a + 1)..(j - 1) :
                          /\ trace[b].op = "agent.take_action"
                          /\ trace[b].agent = p
                          /\ trace[b].action = trace[j0].action
    /\ \A a \in Indices(trace, "game.take_action") :
         /\ trace[a - 1].op = "agent.search"
         /\ \A b \in (a + 1)..(a + Len(agents)) :
              b <= Len(trace) =>
                  trace[b].op = "agent.take_action" /\ trace[b].agent = b - a

C4_Witness ==
    /\ Len(agents) = MaxPlayers
    /\ Cardinality(Indices(trace, "agent.search")) >= 2
    /\ pc = "winner"

\* The MDP state that the step calls of t before index j add up to.
RECURSIVE SumVal(_, _)
SumVal(t, S) ==
    IF S = {} THEN 0
    ELSE LET m == CHOOSE x \in S : TRUE IN t[m].val + SumVal(t, S \ {m})
StepsBefore(t, j) == {m \in Indices(t, "mdp.step") : m < j}
StateBeforeStep(t, j) ==
    [timesteps |-> Cardinality(StepsBefore(t, j)),
     total_reward |-> SumVal(t, StepsBefore(t, j))]

\* C5: the prev_state handed to update for a step is the MDP state as it was
\* before that step: it holds the effect of the earlier steps of the trial only,
\* both when update is called and at any later time.
C5_SnapshotPrecedesStep ==
    mode = "mdp" =>
        /\ pc = "update" => Deref(prev_state) = StateBeforeStep(trace, Len(trace))
        /\ \A j \in Indices(trace, "agent.update") :
             Deref(trace[j].prev) = StateBeforeStep(trace, j - 1)

C5_Witness ==
    /\ mode = "mdp"
    /\ pc = "while_mdp"
    /\ Cardinality(Indices(trace, "agent.update")) >= 2
    /\ snaps[prev_state] # mdp

\* C6: for every completed trial the reported timesteps is the number of step
\* calls of the trial (and the reported reward is the sum of their rewards), and
\* every step call is followed at once by the one update that carries its reward,
\* action and terminal flag.
C6_TimestepsAndUpdatesMatchSteps ==
    mode = "mdp" =>
        \A e \in 1..Len(history) :
            LET t == history[e]
                steps == Indices(t, "mdp.step")
                updates == Indices(t, "agent.update")
            IN  /\ reports[e].timesteps = Cardinality(steps)
                /\ reports[e].total_reward = SumVal(t, steps)
                /\ Cardinality(updates) = Cardinality(steps)
                /\ \A j \in updates : t[j - 1].op = "mdp.step"
                /\ \A j \in steps :
                     /\ t[j + 1].op = "agent.update"
                     /\ t[j + 1].val = t[j].val
                     /\ t[j + 1].action = t[j].action
                     /\ t[j + 1].flag = t[j].flag

C6_Witness ==
    /\ mode = "mdp"
    /\ Len(history) >= 1
    /\ reports[1].timesteps = MaxMoves
    /\ reports[1].total_reward = MaxMoves

\* C7 as stated: in every episode of either driver the environment and every
\* agent have been reset before the first query of the episode.
C7_EnvAndAgentsResetBeforeQuery ==
    \A q \in Queries(trace) :
        /\ \E r \in 1..(q - 1) : trace[r].op \in {"game.reset", "mdp.reset"}
        /\ \A p \in Positions :
             \E r \in 1..(q - 1) : trace[r].op = "agent.reset" /\ trace[r].agent = p

\* C7 amended: every game starts with the reset of the game and of every agent,
\* every trial with the reset of the MDP alone (run_mdp never resets its agent);
\* after it, before the first transition, the environment is in its initial state
\* and, in a game, so is every agent.
C7_ResetBeforeQuery ==
    /\ \A q \in Queries(trace) :
         /\ trace[1].op = (IF mode = "game" THEN "game.reset" ELSE "mdp.reset")
         /\ mode = "game" =>
              \A p \in Positions :
                  \E r \in 1..(q - 1) : trace[r].op = "agent.reset" /\ trace[r].agent = p
    /\ mode = "mdp" => Indices(trace, "agent.reset") = {}
    /\ (pc = "while_game" /\ Indices(trace, "game.take_action") = {}) =>
         (game = GameInitial /\ \A p \in Positions : own[p] = 0)
    /\ (pc = "while_mdp" /\ Indices(trace, "mdp.step") = {}) => mdp = MdpInitial

C7_Witness ==
    /\ mode = "mdp"
    /\ i = 2
    /\ Queries(trace) # {}
    /\ weights[1] > 0

\* C8: in a game episode game.reset() is the first call and is called once, then
\* reset() is called once on every agent in list order, and only then the first
\* is_terminal, copy or search; no reset occurs later in the episode.
C8_ResetsOnceAtEpisodeStart ==
    mode = "game" =>
        /\ \A j \in Indices(trace, "game.reset") : j = 1
        /\ \A j \in Indices(trace, "agent.reset") : j = trace[j].agent + 1
        /\ \A j \in 1..Len(trace) :
             trace[j].op \in {"game.is_terminal", "game.copy", "agent.search"} =>
                 /\ trace[1].op = "game.reset"
                 /\ j > Len(agents) + 1
                 /\ \A p \in Positions :
                      trace[p + 1].op = "agent.reset" /\ trace[p + 1].agent = p

C8_Witness ==
    /\ mode = "game"
    /\ pc = "winner"
    /\ i = 2
    /\ Len(agents) = MaxPlayers
    /\ Indices(trace, "agent.search") # {}

\* C9: once a collaborator call has raised, the driver is out: it makes no
\* further call, starts no further episode, completes none and never reaches the
\* run-end checkpoint.
C9_ErrorsPropagate ==
    /\ [](raised => pc \in {"raised", "config_error"})
    /\ [][raised => UNCHANGED <<pc, i, trace, history, reports, snaps>>]_vars

C9_Witness ==
    /\ pc = "raised"
    /\ i = 1
    /\ num = MaxEpisodes
    /\ Indices(trace, "agent.take_action") # {}

\* C10: with agents whose behaviour depends only on state that reset() restores,
\* all completed episodes of a run of games show the same sequence of calls, with
\* the same agents, actions and flags.
Shape(t) ==
    [j \in 1..Len(t) |->
        [op |-> t[j].op, agent |-> t[j].agent, action |-> t[j].action,
         flag |-> t[j].flag, val |-> t[j].val]]
C10_EpisodesRepeat ==
    (mode = "game" /\ ~learner) =>
        \A a, b \in 1..Len(history) : Shape(history[a]) = Shape(history[b])

C10_Witness ==
    /\ mode = "game"
    /\ ~learner
    /\ Len(history) = 2
    /\ Len(agents) = MaxPlayers
    /\ Cardinality(Indices(history[2], "agent.search")) = MaxMoves

\* C11: reset, take_action and step are applied to the live environment only;
\* no call of the driver other than the agent's own query changes what an
\* existing snapshot holds, so a snapshot that its agent leaves alone holds what
\* it held when copy() returned it for the rest of the run.
LastOp(t) == IF t = <<>> THEN "" ELSE t[Len(t)].op
C11_DriverMutatesLiveOnly ==
    /\ [](\A j \in 1..Len(trace) :
            /\ trace[j].op \in {"game.take_action", "mdp.step"} => trace[j].env = Live
            /\ trace[j].op \in {"game.reset", "mdp.reset"} => trace[j].env = NoRef)
    /\ [](~scribbler => snaps = taken)
    /\ [][(trace' # trace /\ LastOp(trace') \notin {"agent.search", "agent.get_next_action"}) =>
             \A r \in 1..Len(snaps) : snaps'[r] = snaps[r]]_vars

C11_Witness ==
    /\ ~scribbler
    /\ Len(snaps) >= 2
    /\ snaps[1] = taken[1]
    /\ snaps[1] # Deref(Live)
    /\ snaps[2] # snaps[1]
    /\ pc \in {"winner", "return"}

\* C12: a run that reaches its end has played exactly num_games episodes
\* (num_trials trials), none when the count is 0 or negative, and never more are
\* started; in a game episode get_winning_id is read once, as the last call of
\* the episode, right after the is_terminal() call that returned TRUE.
EpisodesAsked == IF num < 0 THEN 0 ELSE num
WinnerReadOnceAtEnd(t) ==
    \A j \in Indices(t, "game.get_winning_id") :
        /\ j = Len(t)
        /\ t[j - 1].op = "game.is_terminal"
        /\ t[j - 1].flag
C12_EpisodeCountAndWinnerRead ==
    /\ i <= EpisodesAsked
    /\ pc \in {"run_end", "done"} => (i = EpisodesAsked /\ Len(history) = EpisodesAsked)
    /\ mode = "game" =>
         /\ WinnerReadOnceAtEnd(trace)
         /\ \A e \in 1..Len(history) :
              /\ WinnerReadOnceAtEnd(history[e])
              /\ Cardinality(Indices(history[e], "game.get_winning_id")) = 1

C12_Witness ==
    /\ mode = "game"
    /\ pc = "run_end"
    /\ num = MaxEpisodes
    /\ Len(history) = MaxEpisodes
    /\ len > 0

\* C13: in every transition the agent notified with the own-action flag TRUE is
\* the agent whose search produced the action: selecting by list position
\* (agents[game.current_agent_id]) and flagging by agent_id pick the same agent,
\* for every agent list of the right length.
C13_FlagGoesToTheSearcher ==
    mode = "game" =>
        /\ pc = "notify" =>
             \A p \in Positions : (agents[p] = agent_id_for_action) <=> (p = current_agent)
        /\ \A a \in Indices(trace, "game.take_action") :
             \A p \in Positions :
                 a + p <= Len(trace) => (trace[a + p].flag <=> p = trace[a - 1].agent)

\* C14: the flag is computed from the current agent id captured before
\* take_action, so an agent that is told TRUE is the agent that moved (the one
\* whose search produced the action) and, when the transition has changed the
\* game's current agent, it is not the agent whose turn comes next.
C14_FlagNeverToNextAgent ==
    mode = "game" =>
        \A a \in Indices(trace, "game.take_action") :
            \A p \in Positions :
                (a + p <= Len(trace) /\ trace[a + p].flag) =>
                    /\ p = trace[a - 1].agent
                    /\ (pc = "notify" /\ a + Len(agents) >= Len(trace)
                        /\ game.current_agent_id # agent_id_for_action) =>
                           p # game.current_agent_id + 1

\* The part of C14 that is about the order of lines 64 and 66: an agent is told
\* TRUE exactly when its agent_id is the current agent id the game had before
\* take_action was applied, and the agent whose id is the new current id is told
\* FALSE.
C14_FlagFromIdBeforeTransition ==
    mode = "game" =>
        /\ pc = "notify" => agent_id_for_action = taken[snap].current_agent_id
        /\ \A a \in Indices(trace, "game.take_action") :
             \A p \in Positions :
                 a + p <= Len(trace) =>
                     /\ trace[a + p].flag = (agents[p] = taken[trace[a - 1].env].current_agent_id)
                     /\ (pc = "notify" /\ a + p > Len(trace) - Len(agents)
                         /\ game.current_agent_id # agent_id_for_action
                         /\ agents[p] = game.current_agent_id) => ~trace[a + p].flag

C14_Witness ==
    /\ mode = "game"
    /\ pc = "notify"
    /\ k > Len(agents)
    /\ Len(agents) = MaxPlayers
    /\ game.current_agent_id # agent_id_for_action
    /\ \E p \in Positions : trace[Len(trace) - Len(agents) + p].flag

\* C15: the action search returned is applied to the live game first, and only
\* then delivered to the agents, in list order; the value applied and the value
\* in every notification are the value search returned.
C15_AppliedThenDeliveredInOrder ==
    mode = "game" =>
        /\ pc = "advance" => action = trace[Len(trace)].action
        /\ pc = "notify" => game = GameTakeAction(taken[snap], action)
        /\ \A a \in Indices(trace, "game.take_action") :
             /\ trace[a].env = Live
             /\ trace[a - 1].op = "agent.search"
             /\ trace[a].action = trace[a - 1].action
             /\ \A b \in (a + 1)..(a + Len(agents)) :
                  b <= Len(trace) =>
                      /\ trace[b].op = "agent.take_action"
                      /\ trace[b].agent = b - a
                      /\ trace[b].action = trace[a - 1].action
        /\ \A b \in Indices(trace, "agent.take_action") :
             /\ b > trace[b].agent
             /\ trace[b - trace[b].agent].op = "game.take_action"

C15_Witness ==
    /\ mode = "game"
    /\ pc = "notify"
    /\ k > Len(agents)
    /\ Len(agents) = MaxPlayers
    /\ action = NumActions - 1
    /\ game.moves >= 2

\* C16: after is_terminal() has returned TRUE in an episode the only call the
\* driver still makes in it is get_winning_id (none in a trial); an environment
\* that is terminal right after reset gives an episode without copy, query or
\* transition, which still ends with the winner read or the timesteps reported.
IsTerminalCalls(t) == Indices(t, "game.is_terminal") \cup Indices(t, "mdp.is_terminal")
NothingAfterTerminal(t) ==
    \A j \in IsTerminalCalls(t) :
        t[j].flag => \A m \in (j + 1)..Len(t) : t[m].op = "game.get_winning_id"
OnlyResetsAndTest(t) ==
    \A j \in 1..Len(t) :
        t[j].op \in {"game.reset", "agent.reset", "mdp.reset", "game.is_terminal",
                     "mdp.is_terminal", "game.get_winning_id"}
C16_NothingAfterTerminal ==
    /\ NothingAfterTerminal(trace)
    /\ Len(reports) = Len(history)
    /\ \A e \in 1..Len(history) :
         /\ NothingAfterTerminal(history[e])
         /\ len = 0 =>
              /\ OnlyResetsAndTest(history[e])
              /\ mode = "game" => LastOp(history[e]) = "game.get_winning_id"
              /\ mode = "mdp" => reports[e].timesteps = 0
    /\ (len = 0 /\ ~endless /\ ~raised /\ pc \in {"for_game", "for_trial", "run_end", "done"}) =>
         Len(history) = i

C16_Witness ==
    /\ len = 0
    /\ ~endless
    /\ Len(history) = MaxEpisodes
    /\ pc = "done"
    /\ mode = "game"
    /\ Len(agents) = MaxPlayers

\* C17: when no collaborator call raises and the environment reports terminal
\* after finitely many transitions, the run reaches its run-end checkpoint; the
\* driver has no step cap of its own, so with an environment that never reports
\* terminal (and at least one episode asked for) it stays in the first episode,
\* however many transitions it has made, and never completes it or reaches the
\* run end.
C17_RunEndsIffEpisodesEnd ==
    /\ (~endless /\ []~raised) => <>(pc = "run_end")
    /\ []((endless /\ num >= 1) =>
            /\ i <= 1
            /\ history = <<>>
            /\ pc \notin {"winner", "return", "run_end", "done"})

C17_Witness ==
    /\ pc = "run_end"
    /\ ~raised
    /\ i = MaxEpisodes
    /\ len = MaxMoves
    /\ Len(history) = MaxEpisodes

\* C18: in an MDP step the object given to get_next_action and the prev_state
\* given to update are two different copies, both taken of the state before the
\* step; what the agent does to the first leaves prev_state as it was copied.
C18_SeparateCopiesOfSameState ==
    mode = "mdp" =>
        /\ pc \in {"step", "update"} =>
             /\ prev_state # snap
             /\ prev_state \in 1..Len(snaps)
             /\ taken[prev_state] = taken[snap]
             /\ snaps[prev_state] = taken[snap]
        /\ \A j \in Indices(trace, "agent.update") :
             /\ trace[j - 3].op = "agent.get_next_action"
             /\ trace[j].prev # trace[j - 3].env
             /\ taken[trace[j].prev] = taken[trace[j - 3].env]
             /\ snaps[trace[j].prev] = taken[trace[j].prev]

C18_Witness ==
    /\ mode = "mdp"
    /\ scribbler
    /\ pc = "while_mdp"
    /\ Indices(trace, "agent.update") # {}
    /\ snaps[snap] # taken[snap]
    /\ snaps[prev_state] = taken[snap]

\* C19: a trial ends when, and only when, mdp.is_terminal() returns TRUE; the
\* terminal flag of step is passed on to update and decides nothing: after a
\* step that returned TRUE the trial goes on with another copy, query and step
\* if is_terminal() returns FALSE, and an update that carries TRUE is the last
\* update of a completed trial exactly when the is_terminal() call after it
\* returned TRUE.
Updates(t) == Indices(t, "agent.update")
C19_TrialEndsByIsTerminalOnly ==
    mode = "mdp" =>
        /\ \A j \in Updates(trace) : trace[j].flag = trace[j - 1].flag
        /\ \A j \in Indices(trace, "mdp.is_terminal") :
             j < Len(trace) => (~trace[j].flag /\ trace[j + 1].op = "mdp.copy")
        /\ pc = "return" => (LastOp(trace) = "mdp.is_terminal" /\ trace[Len(trace)].flag)
        /\ \A e \in 1..Len(history) :
             LET t == history[e] IN
             /\ LastOp(t) = "mdp.is_terminal"
             /\ t[Len(t)].flag
             /\ \A j \in Updates(t) :
                  /\ t[j + 1].op = "mdp.is_terminal"
                  /\ (\A m \in Updates(t) : m <= j) <=> t[j + 1].flag
                  /\ (t[j].flag /\ ~t[j + 1].flag) =>
                       \E m \in Indices(t, "mdp.step") : m > j

C19_Witness ==
    /\ mode = "mdp"
    /\ early
    /\ Len(history) >= 1
    /\ \E j \in Updates(history[1]) :
         /\ history[1][j].flag
         /\ ~history[1][j + 1].flag
         /\ \E m \in Updates(history[1]) : m > j

Next ==
    \/ CheckAgents
    \/ ForGame
    \/ ResetGame
    \/ ResetAgent
    \/ WhileGame
    \/ CopyGame
    \/ Search
    \/ Advance
    \/ Notify
    \/ Winner
    \/ ForTrial
    \/ ResetMdp
    \/ WhileMdp
    \/ CopyMdp
    \/ NextAction
    \/ Snapshot
    \/ Step
    \/ Update
    \/ ReturnTrial
    \/ RunEnd

Spec == Init /\ [][Next]_vars

\* The driver is one sequential thread: as long as it can take a step it takes one.
FairSpec == Spec /\ WF_vars(Next)
====
